---------------------------- MODULE Spec2Model ----------------------------
(***************************************************************************)
(* The Hebrew Calendar Converter plugin (src/__init__.py): the query       *)
(* handler, the two date parsers, the two conversion functions and the     *)
(* result presenter.                                                       *)
(*                                                                         *)
(* A Python string is a sequence of one-character strings.  The character  *)
(* U+00B2 (SUPERSCRIPT TWO), for which str.isdigit() is true and int()     *)
(* raises ValueError, is written "sup2".                                   *)
(***************************************************************************)
EXTENDS Integers, Sequences, FiniteSets, TLC

(***************************************************************************)
(* Characters and the str methods the code uses.                           *)
(***************************************************************************)

\* Characters of Unicode category Nd: what \d matches and int() accepts.
DecimalChars == {"0", "1", "2", "3", "4", "5", "6", "7", "8", "9"}

\* Characters for which str.isdigit() is true: Nd, and digits of category
\* No such as U+00B2.
DigitChars == DecimalChars \cup {"sup2"}

\* Characters str.split() and str.strip() treat as whitespace.
WhitespaceChars == {" "}

UpperLetters ==
    <<"A", "B", "C", "D", "E", "F", "G", "H", "I", "J", "K", "L", "M",
      "N", "O", "P", "Q", "R", "S", "T", "U", "V", "W", "X", "Y", "Z">>

LowerLetters ==
    <<"a", "b", "c", "d", "e", "f", "g", "h", "i", "j", "k", "l", "m",
      "n", "o", "p", "q", "r", "s", "t", "u", "v", "w", "x", "y", "z">>

LowerChar(c) ==
    IF \E i \in 1..Len(UpperLetters) : UpperLetters[i] = c
    THEN LowerLetters[CHOOSE i \in 1..Len(UpperLetters) : UpperLetters[i] = c]
    ELSE c

\* str.lower()
lower(s) == [i \in 1..Len(s) |-> LowerChar(s[i])]

RECURSIVE lstrip(_)
lstrip(s) ==
    IF s # <<>> /\ Head(s) \in WhitespaceChars THEN lstrip(Tail(s)) ELSE s

RECURSIVE rstrip(_)
rstrip(s) ==
    IF s # <<>> /\ s[Len(s)] \in WhitespaceChars
    THEN rstrip(SubSeq(s, 1, Len(s) - 1))
    ELSE s

\* str.strip()
strip(s) == rstrip(lstrip(s))

IsPunct(c) == c \in {",", "."}

IsNotPunct(c) == ~IsPunct(c)

\* re.sub(r'[,.]', '', s)
RemovePunct(s) == SelectSeq(s, IsNotPunct)

\* str.split(): the maximal runs of non-whitespace characters, in order.
RECURSIVE SplitFrom(_, _, _)
SplitFrom(s, cur, acc) ==
    IF s = <<>>
    THEN IF cur = <<>> THEN acc ELSE Append(acc, cur)
    ELSE IF Head(s) \in WhitespaceChars
         THEN SplitFrom(Tail(s), <<>>, IF cur = <<>> THEN acc ELSE Append(acc, cur))
         ELSE SplitFrom(Tail(s), Append(cur, Head(s)), acc)

split(s) == SplitFrom(s, <<>>, <<>>)

\* str.isdigit(): non-empty and every character a digit character.
isdigit(part) == part # <<>> /\ \A i \in 1..Len(part) : part[i] \in DigitChars

\* int(part) succeeds on a digit-only token exactly when every character is
\* a decimal digit; otherwise it raises ValueError.
IntParsable(part) == part # <<>> /\ \A i \in 1..Len(part) : part[i] \in DecimalChars

DigitValue(c) ==
    CASE c = "0" -> 0 [] c = "1" -> 1 [] c = "2" -> 2 [] c = "3" -> 3
      [] c = "4" -> 4 [] c = "5" -> 5 [] c = "6" -> 6 [] c = "7" -> 7
      [] c = "8" -> 8 [] c = "9" -> 9

RECURSIVE IntFrom(_, _)
IntFrom(part, acc) ==
    IF part = <<>> THEN acc
    ELSE IntFrom(Tail(part), 10 * acc + DigitValue(Head(part)))

\* int(part) for a token of decimal digits.
int(part) == IntFrom(part, 0)

\* sub in s (substring test on strings)
Contains(s, sub) ==
    \E i \in 1..(Len(s) - Len(sub) + 1) : SubSeq(s, i, i + Len(sub) - 1) = sub

\* re.findall(r'\d+', s): the maximal runs of decimal digits, in order.
RECURSIVE FindallFrom(_, _, _)
FindallFrom(s, cur, acc) ==
    IF s = <<>>
    THEN IF cur = <<>> THEN acc ELSE Append(acc, cur)
    ELSE IF Head(s) \in DecimalChars
         THEN FindallFrom(Tail(s), Append(cur, Head(s)), acc)
         ELSE FindallFrom(Tail(s), <<>>, IF cur = <<>> THEN acc ELSE Append(acc, cur))

findall(s) == FindallFrom(s, <<>>, <<>>)

\* Number of decimal digits at the start of s from position i, at most cap.
RECURSIVE DigitRun(_, _, _)
DigitRun(s, i, cap) ==
    IF cap = 0 \/ i > Len(s) \/ s[i] \notin DecimalChars THEN 0
    ELSE 1 + DigitRun(s, i + 1, cap - 1)

CharAt(s, i) == IF i >= 1 /\ i <= Len(s) THEN s[i] ELSE "EOS"

(***************************************************************************)
(* Hebrew date parser.                                                     *)
(***************************************************************************)

\* The module-level table of month keys and display names.
HEBREW_MONTHS ==
    { <<<<"t", "i", "s", "h", "r", "e", "i">>, <<"T", "i", "s", "h", "r", "e", "i">>>>, <<<<"c", "h", "e", "s", "h", "v", "a", "n">>, <<"C", "h", "e", "s", "h", "v", "a", "n">>>>,
      <<<<"k", "i", "s", "l", "e", "v">>, <<"K", "i", "s", "l", "e", "v">>>>, <<<<"t", "e", "v", "e", "t">>, <<"T", "e", "v", "e", "t">>>>,
      <<<<"s", "h", "v", "a", "t">>, <<"S", "h", "v", "a", "t">>>>, <<<<"a", "d", "a", "r">>, <<"A", "d", "a", "r">>>>, <<<<"a", "d", "a", "r", "1">>, <<"A", "d", "a", "r", "1">>>>,
      <<<<"a", "d", "a", "r", "2">>, <<"A", "d", "a", "r", "2">>>>, <<<<"n", "i", "s", "a", "n">>, <<"N", "i", "s", "a", "n">>>>, <<<<"i", "y", "y", "a", "r">>, <<"I", "y", "y", "a", "r">>>>,
      <<<<"s", "i", "v", "a", "n">>, <<"S", "i", "v", "a", "n">>>>, <<<<"t", "a", "m", "u", "z">>, <<"T", "a", "m", "u", "z">>>>, <<<<"a", "v">>, <<"A", "v">>>>,
      <<<<"e", "l", "u", "l">>, <<"E", "l", "u", "l">>>> }

InHebrewMonths(part) == \E p \in HEBREW_MONTHS : p[1] = part

HebrewMonthName(part) == (CHOOSE p \in HEBREW_MONTHS : p[1] = part)[2]

\* A parser's return value.  status is "ok" (a record), "None", or
\* "ValueError" (the exception left the function).  In the loop a slot that
\* is still None is 0 (year, day) or the empty string (month): the code only
\* tests the slots' truth, and no assigned value is falsy.
NoDate == [status |-> "None", year |-> 0, month |-> <<>>, day |-> 0]

RaisedDate == [status |-> "ValueError", year |-> 0, month |-> <<>>, day |-> 0]

HebrewYearFloor == 5000

HebrewDayMax == 30

\* The for loop over parts, with the three slots as accumulators.
RECURSIVE ScanParts(_, _, _, _)
ScanParts(parts, year, month, day) ==
    IF parts = <<>>
    THEN IF year # 0 /\ month # <<>> /\ day # 0
         THEN [status |-> "ok", year |-> year, month |-> month, day |-> day]
         ELSE NoDate
    ELSE LET part == Head(parts) IN
         IF isdigit(part)
         THEN IF ~IntParsable(part)
              THEN RaisedDate
              ELSE LET num == int(part) IN
                   IF num > HebrewYearFloor
                   THEN ScanParts(Tail(parts), num, month, day)
                   ELSE IF 1 <= num /\ num <= HebrewDayMax
                        THEN ScanParts(Tail(parts), year, month, num)
                        ELSE ScanParts(Tail(parts), year, month, day)
         ELSE IF InHebrewMonths(part)
              THEN ScanParts(Tail(parts), year, HebrewMonthName(part), day)
              ELSE ScanParts(Tail(parts), year, month, day)

\* A variant that reads the three slots by position: year, month, day.
parseHebrewDate_Positional(date_str) ==
    LET cleaned == lower(RemovePunct(date_str))
        parts == split(cleaned)
    IN IF Len(parts) < 3 THEN NoDate
       ELSE IF isdigit(parts[1]) /\ ~IntParsable(parts[1]) THEN RaisedDate
       ELSE IF isdigit(parts[3]) /\ ~IntParsable(parts[3]) THEN RaisedDate
       ELSE IF /\ isdigit(parts[1]) /\ int(parts[1]) > 5000
               /\ InHebrewMonths(parts[2])
               /\ isdigit(parts[3]) /\ int(parts[3]) >= 1 /\ int(parts[3]) <= 30
            THEN [status |-> "ok", year |-> int(parts[1]),
                  month |-> HebrewMonthName(parts[2]), day |-> int(parts[3])]
            ELSE NoDate

MinHebrewParts == 3

parseHebrewDate(date_str) ==
    LET cleaned == lower(RemovePunct(date_str))
        parts == split(cleaned)
    IN IF Len(parts) < MinHebrewParts THEN NoDate
       ELSE ScanParts(parts, 0, <<>>, 0)

(***************************************************************************)
(* Gregorian date parser.                                                  *)
(***************************************************************************)

GregorianDate(y, m, d) == [status |-> "ok", year |-> y, month |-> m, day |-> d]

NoGregorian == [status |-> "None", year |-> 0, month |-> 0, day |-> 0]

\* re.match(r'(\d{4})-(\d{1,2})-(\d{1,2})', s): the three groups, or <<>>.
\* A greedy \d{1,2} followed by a literal takes both digits when there are
\* two, and backtracking to one digit cannot help (the literal would have to
\* match the second digit).
IsoMatch(s) ==
    LET k2 == DigitRun(s, 6, 2)
        k3 == DigitRun(s, 7 + k2, 2)
    IN IF /\ DigitRun(s, 1, 4) = 4
          /\ CharAt(s, 5) = "-"
          /\ k2 >= 1
          /\ CharAt(s, 6 + k2) = "-"
          /\ k3 >= 1
       THEN <<SubSeq(s, 1, 4), SubSeq(s, 6, 5 + k2), SubSeq(s, 7 + k2, 6 + k2 + k3)>>
       ELSE <<>>

\* re.match(r'(\d{1,2})/(\d{1,2})/(\d{4})', s): the three groups, or <<>>.
SlashMatch(s) ==
    LET k1 == DigitRun(s, 1, 2)
        k2 == DigitRun(s, 2 + k1, 2)
    IN IF /\ k1 >= 1
          /\ CharAt(s, 1 + k1) = "/"
          /\ k2 >= 1
          /\ CharAt(s, 2 + k1 + k2) = "/"
          /\ DigitRun(s, 3 + k1 + k2, 4) = 4
       THEN <<SubSeq(s, 1, k1), SubSeq(s, 2 + k1, 1 + k1 + k2),
              SubSeq(s, 3 + k1 + k2, 6 + k1 + k2)>>
       ELSE <<>>

\* The months dict in iteration order (a dict keeps a repeated key, 'may',
\* at its first position).
months ==
    << <<<<"j", "a", "n", "u", "a", "r", "y">>, 1>>, <<<<"f", "e", "b", "r", "u", "a", "r", "y">>, 2>>, <<<<"m", "a", "r", "c", "h">>, 3>>, <<<<"a", "p", "r", "i", "l">>, 4>>,
       <<<<"m", "a", "y">>, 5>>, <<<<"j", "u", "n", "e">>, 6>>, <<<<"j", "u", "l", "y">>, 7>>, <<<<"a", "u", "g", "u", "s", "t">>, 8>>,
       <<<<"s", "e", "p", "t", "e", "m", "b", "e", "r">>, 9>>, <<<<"o", "c", "t", "o", "b", "e", "r">>, 10>>, <<<<"n", "o", "v", "e", "m", "b", "e", "r">>, 11>>,
       <<<<"d", "e", "c", "e", "m", "b", "e", "r">>, 12>>,
       <<<<"j", "a", "n">>, 1>>, <<<<"f", "e", "b">>, 2>>, <<<<"m", "a", "r">>, 3>>, <<<<"a", "p", "r">>, 4>>, <<<<"j", "u", "n">>, 6>>,
       <<<<"j", "u", "l">>, 7>>, <<<<"a", "u", "g">>, 8>>, <<<<"s", "e", "p">>, 9>>, <<<<"o", "c", "t">>, 10>>, <<<<"n", "o", "v">>, 11>>,
       <<<<"d", "e", "c">>, 12>> >>

TwoDigitYearLimit == 100

Century == 2000

\* A variant that returns the entry's position in the dict as the month.
RECURSIVE NaturalFrom_IndexAsMonth(_, _)
NaturalFrom_IndexAsMonth(date_str, i) ==
    IF i > Len(months) THEN NoGregorian
    ELSE IF Contains(lower(date_str), months[i][1])
         THEN LET numbers == findall(date_str) IN
              IF Len(numbers) >= 2
              THEN LET day == int(numbers[1])
                       year == int(numbers[Len(numbers)])
                   IN GregorianDate(IF year < 100 THEN year + 2000 ELSE year, i, day)
              ELSE NaturalFrom_IndexAsMonth(date_str, i + 1)
         ELSE NaturalFrom_IndexAsMonth(date_str, i + 1)

\* A variant that takes every year below 1000 for a short year.
RECURSIVE NaturalFrom_YearBelow1000(_, _)
NaturalFrom_YearBelow1000(date_str, i) ==
    IF i > Len(months) THEN NoGregorian
    ELSE IF Contains(lower(date_str), months[i][1])
         THEN LET numbers == findall(date_str) IN
              IF Len(numbers) >= 2
              THEN LET day == int(numbers[1])
                       year == int(numbers[Len(numbers)])
                   IN GregorianDate(IF year < 1000 THEN year + 2000 ELSE year,
                                    months[i][2], day)
              ELSE NaturalFrom_YearBelow1000(date_str, i + 1)
         ELSE NaturalFrom_YearBelow1000(date_str, i + 1)

\* The for loop over months.items(), from entry i on.
RECURSIVE NaturalFrom(_, _)
NaturalFrom(date_str, i) ==
    IF i > Len(months) THEN NoGregorian
    ELSE IF Contains(lower(date_str), months[i][1])
         THEN LET numbers == findall(date_str) IN
              IF Len(numbers) >= 2
              THEN LET day == int(numbers[1])
                       year == int(numbers[Len(numbers)])
                   IN GregorianDate(IF year < TwoDigitYearLimit THEN year + Century ELSE year,
                                    months[i][2], day)
              ELSE NaturalFrom(date_str, i + 1)
         ELSE NaturalFrom(date_str, i + 1)

FirstOverTwelve == 12

\* A variant whose slash form reads a first number of 12 as a day too.
parseGregorianDate_DayFirstFrom12(date_str) ==
    LET iso_match == IsoMatch(date_str)
        slash_match == SlashMatch(date_str)
    IN IF iso_match # <<>>
       THEN GregorianDate(int(iso_match[1]), int(iso_match[2]), int(iso_match[3]))
       ELSE IF slash_match # <<>>
            THEN LET m1 == int(slash_match[1])
                     m2 == int(slash_match[2])
                     year == int(slash_match[3])
                 IN IF m1 >= 12
                    THEN GregorianDate(year, m2, m1)
                    ELSE GregorianDate(year, m1, m2)
            ELSE NaturalFrom(date_str, 1)

parseGregorianDate(date_str) ==
    LET iso_match == IsoMatch(date_str)
        slash_match == SlashMatch(date_str)
    IN IF iso_match # <<>>
       THEN GregorianDate(int(iso_match[1]), int(iso_match[2]), int(iso_match[3]))
       ELSE IF slash_match # <<>>
            THEN LET m1 == int(slash_match[1])
                     m2 == int(slash_match[2])
                     year == int(slash_match[3])
                 IN IF m1 > FirstOverTwelve
                    THEN GregorianDate(year, m2, m1)
                    ELSE GregorianDate(year, m1, m2)
            ELSE NaturalFrom(date_str, 1)

(***************************************************************************)
(* The conversion service's replies and the two conversion functions.      *)
(***************************************************************************)

\* A JSON scalar: an integer or a string.
IntVal(n) == [t |-> "int", n |-> n, s |-> <<>>]

StrVal(s) == [t |-> "str", n |-> 0, s |-> s]

\* What urlopen(url, timeout=5) followed by json.loads(response.read().decode())
\* can produce: an exception (kind "URLError", "timeout", "JSONDecodeError") or
\* a decoded body (kind "json").  A decoded body is an object with the keys
\* `keys`, an array whose elements are `keys`, or a number; vals gives the
\* value under each key of an object.
ServiceKeys == {"gy", "gm", "gd", "hy", "hm", "hd"}

ServiceVals ==
    [k \in ServiceKeys |->
        CASE k = "gy" -> IntVal(2023)
          [] k = "gm" -> IntVal(12)
          [] k = "gd" -> IntVal(8)
          [] k = "hy" -> IntVal(5784)
          [] k = "hm" -> StrVal(<<"K", "i", "s", "l", "e", "v">>)
          [] k = "hd" -> IntVal(25)]

\* The same body with month and day numbers sent as strings.
StringlyVals ==
    [k \in ServiceKeys |->
        CASE k = "gy" -> IntVal(2023)
          [] k = "gm" -> StrVal(<<"1", "2">>)
          [] k = "gd" -> IntVal(8)
          [] k = "hy" -> IntVal(5784)
          [] k = "hm" -> StrVal(<<"K", "i", "s", "l", "e", "v">>)
          [] k = "hd" -> StrVal(<<"2", "5">>)]

Failure(kind) == [kind |-> kind, shape |-> "none", keys |-> {}, vals |-> ServiceVals]

Body(shape, keys, vals) == [kind |-> "json", shape |-> shape, keys |-> keys, vals |-> vals]

NoResponse == Failure("none")

Responses ==
    {Failure("URLError"), Failure("timeout"), Failure("JSONDecodeError")}
    \cup {Body("object", ServiceKeys \ {k}, ServiceVals) : k \in ServiceKeys}
    \cup {Body("object", ServiceKeys, ServiceVals),
          Body("object", ServiceKeys, StringlyVals),
          Body("object", {}, ServiceVals),
          Body("array", ServiceKeys, ServiceVals),
          Body("number", {}, ServiceVals)}

DigitChar(d) ==
    CASE d = 0 -> "0" [] d = 1 -> "1" [] d = 2 -> "2" [] d = 3 -> "3"
      [] d = 4 -> "4" [] d = 5 -> "5" [] d = 6 -> "6" [] d = 7 -> "7"
      [] d = 8 -> "8" [] d = 9 -> "9"

\* str(n) / f"{n}" for a non-negative integer.
RECURSIVE StrNat(_)
StrNat(n) ==
    IF n < 10 THEN <<DigitChar(n)>>
    ELSE Append(StrNat(n \div 10), DigitChar(n % 10))

\* f"{n:02d}" for a non-negative integer.
Fmt02d(n) == IF n < 10 THEN <<"0">> \o StrNat(n) ELSE StrNat(n)

\* f"{v}" for a JSON scalar.
FmtVal(v) == IF v.t = "int" THEN StrNat(v.n) ELSE v.s

\* A convert function's return value: a ConvertedDate (status "ok"), None,
\* or an exception that left the function (status "raised").
NoConverted ==
    [status |-> "None", year |-> IntVal(0), month |-> IntVal(0), day |-> IntVal(0),
     formatted |-> <<>>]

RaisedConverted ==
    [status |-> "raised", year |-> IntVal(0), month |-> IntVal(0), day |-> IntVal(0),
     formatted |-> <<>>]

\* `k in data` raises TypeError when data is a number; data[k] raises
\* TypeError when data is an array.
HasKeys(resp, ks) == ks \subseteq resp.keys

\* The try block of convertHebrewToGregorian given the service's reply:
\* the value returned inside it, "fall" when the block ends without
\* returning, or "exc" when an exception is raised inside it.
HebrewToGregorianTry(resp) ==
    IF resp.kind # "json" THEN [out |-> "exc", value |-> NoConverted]
    ELSE IF resp.shape = "number" THEN [out |-> "exc", value |-> NoConverted]
    ELSE IF ~HasKeys(resp, {"gy", "gm", "gd"}) THEN [out |-> "fall", value |-> NoConverted]
    ELSE IF resp.shape # "object" THEN [out |-> "exc", value |-> NoConverted]
    ELSE IF resp.vals["gm"].t # "int" \/ resp.vals["gd"].t # "int"
         THEN [out |-> "exc", value |-> NoConverted]
    ELSE [out |-> "return",
          value |-> [status |-> "ok",
                     year |-> resp.vals["gy"],
                     month |-> resp.vals["gm"],
                     day |-> resp.vals["gd"],
                     formatted |-> FmtVal(resp.vals["gy"]) \o <<"-">>
                                   \o Fmt02d(resp.vals["gm"].n) \o <<"-">>
                                   \o Fmt02d(resp.vals["gd"].n)]]

\* A variant without the except clause: an exception leaves the function.
convertHebrewToGregorian_NoExcept(hebrew_date, resp) ==
    LET t == HebrewToGregorianTry(resp)
    IN IF t.out = "return" THEN t.value
       ELSE IF t.out = "exc" THEN RaisedConverted
       ELSE NoConverted

\* try: ... except Exception: pass; return None
convertHebrewToGregorian(hebrew_date, resp) ==
    LET t == HebrewToGregorianTry(resp)
    IN IF t.out = "return" THEN t.value ELSE NoConverted

GregorianToHebrewTry(resp) ==
    IF resp.kind # "json" THEN [out |-> "exc", value |-> NoConverted]
    ELSE IF resp.shape = "number" THEN [out |-> "exc", value |-> NoConverted]
    ELSE IF ~HasKeys(resp, {"hy", "hm", "hd"}) THEN [out |-> "fall", value |-> NoConverted]
    ELSE IF resp.shape # "object" THEN [out |-> "exc", value |-> NoConverted]
    ELSE [out |-> "return",
          value |-> [status |-> "ok",
                     year |-> resp.vals["hy"],
                     month |-> resp.vals["hm"],
                     day |-> resp.vals["hd"],
                     formatted |-> FmtVal(resp.vals["hd"]) \o <<" ">>
                                   \o FmtVal(resp.vals["hm"]) \o <<" ">>
                                   \o FmtVal(resp.vals["hy"])]]

convertGregorianToHebrew(gregorian_date, resp) ==
    LET t == GregorianToHebrewTry(resp)
    IN IF t.out = "return" THEN t.value ELSE NoConverted

(***************************************************************************)
(* Result items.                                                           *)
(***************************************************************************)

\* The arrow U+2192 of the two labels is written "->".
HebrewToGregorianLabel == <<"H", "e", "b", "r", "e", "w", " ", "-", ">", " ", "G", "r", "e", "g", "o", "r", "i", "a", "n">>

GregorianToHebrewLabel == <<"G", "r", "e", "g", "o", "r", "i", "a", "n", " ", "-", ">", " ", "H", "e", "b", "r", "e", "w">>

\* An Action: its id, its text, and the string its callable copies.
Action(id, text, copies) == [id |-> id, text |-> text, copies |-> copies]

createResultItem(input_date, output_date, hebrew_to_gregorian) ==
    LET input_text ==
            IF hebrew_to_gregorian
            THEN StrNat(input_date.day) \o <<" ">> \o input_date.month \o <<" ">>
                 \o StrNat(input_date.year)
            ELSE StrNat(input_date.year) \o <<"-">> \o Fmt02d(input_date.month)
                 \o <<"-">> \o Fmt02d(input_date.day)
        output_text == output_date.formatted
        conversion_type ==
            IF hebrew_to_gregorian THEN HebrewToGregorianLabel ELSE GregorianToHebrewLabel
    IN [text |-> output_text,
        subtext |-> conversion_type \o <<":", " ">> \o input_text,
        actions |-> <<Action("copy", <<"C", "o", "p", "y", " ", "t", "o", " ", "c", "l", "i", "p", "b", "o", "a", "r", "d">>, output_text),
                      Action("copy-input", <<"C", "o", "p", "y", " ", "i", "n", "p", "u", "t", " ", "d", "a", "t", "e">>, input_text)>>]

\* The item shown for an empty query.
HelpItem ==
    [text |-> <<"H", "e", "b", "r", "e", "w", " ", "C", "a", "l", "e", "n", "d", "a", "r", " ", "C", "o", "n", "v", "e", "r", "t", "e", "r">>,
     subtext |-> <<"E", "n", "t", "e", "r", " ", "a", " ", "H", "e", "b", "r", "e", "w", " ", "o", "r", " ", "G", "r", "e", "g", "o", "r", "i", "a", "n", " ", "d", "a", "t", "e", " ", "t", "o", " ", "c", "o", "n", "v", "e", "r", "t">>,
     actions |-> <<>>]

\* The item shown when no direction produced a result.
InvalidItem ==
    [text |-> <<"I", "n", "v", "a", "l", "i", "d", " ", "d", "a", "t", "e", " ", "f", "o", "r", "m", "a", "t">>,
     subtext |-> <<"T", "r", "y", " ", "f", "o", "r", "m", "a", "t", "s", " ", "l", "i", "k", "e", " ", "'", "5", "7", "8", "4", " ", "K", "i", "s", "l", "e", "v", " ", "2", "5", "'", ",", " ", "'", "2", "0", "2", "3", "-", "1", "2", "-", "0", "8", "'", ",", " ", "o", "r", " ", "'", "D", "e", "c", "e", "m", "b", "e", "r", " ", "8", ",", " ", "2", "0", "2", "3", "'">>,
     actions |-> <<>>]

(***************************************************************************)
(* The query strings the handler is run on.                                *)
(***************************************************************************)

RECURSIVE Join(_, _)
Join(toks, sep) ==
    IF toks = <<>> THEN <<>>
    ELSE IF Len(toks) = 1 THEN toks[1]
    ELSE toks[1] \o sep \o Join(Tail(toks), sep)

RECURSIVE SeqsUpTo(_, _)
SeqsUpTo(L, n) ==
    IF n = 0 THEN {<<>>}
    ELSE LET S == SeqsUpTo(L, n - 1)
         IN S \cup {Append(s, x) : s \in {t \in S : Len(t) = n - 1}, x \in L}

MaxTokens == 4

MaxWords == 3

\* Free text: up to MaxTokens tokens separated by single spaces.
Lexemes == {<<"5", "7", "8", "4">>, <<"2", "5">>, <<"K", "i", "s", "l", "e", "v">>, <<"D", "e", "c">>, <<"sup2">>}

TokenQueries == {Join(toks, <<" ">>) : toks \in SeqsUpTo(Lexemes, MaxTokens)}

\* Hebrew dates: a year, a month and a day token in each of the six orders,
\* each token with or without a comma or period attached.
YearTokens == {<<"5", "7", "8", "4">>, <<"5", "0", "0", "1">>}

MonthTokens == {<<"K", "i", "s", "l", "e", "v">>, <<"A", "D", "A", "R", "2">>}

DayTokens == {<<"1">>, <<"3", "0">>}

Attached == {<<>>, <<",">>, <<".">>}

Orders == {p \in [1..3 -> 1..3] : \A i, j \in 1..3 : p[i] = p[j] => i = j}

HebrewQuery(y, m, d, p, a) ==
    LET t == <<y, m, d>>
    IN t[p[1]] \o a[1] \o <<" ">> \o t[p[2]] \o a[2] \o <<" ">> \o t[p[3]] \o a[3]

HebrewQueries ==
    {HebrewQuery(y, m, d, p, a) :
        y \in YearTokens, m \in MonthTokens, d \in DayTokens,
        p \in Orders, a \in [1..3 -> Attached]}

\* Numeric Gregorian dates: Y-A-B and A/B/Y, alone or followed by a word.
NumberTokens == {<<"0">>, <<"5">>, <<"1", "2">>, <<"1", "3">>, <<"9", "9">>, <<"1", "2", "3">>}

YearDigits == {<<"2", "0", "2", "3">>, <<"2", "3">>, <<"2", "0", "2", "3", "5">>}

Suffixes == {<<>>, <<" ", "d", "e", "c">>}

NumericQueries ==
    {y \o <<"-">> \o a \o <<"-">> \o b \o x :
        y \in YearDigits, a \in NumberTokens, b \in NumberTokens, x \in Suffixes}
    \cup
    {a \o <<"/">> \o b \o <<"/">> \o y \o x :
        y \in YearDigits, a \in NumberTokens, b \in NumberTokens, x \in Suffixes}

\* Natural-language Gregorian dates: up to MaxWords words.
Words == {<<"D", "e", "c">>, <<"d", "e", "c", "e", "m", "b", "e", "r">>, <<"M", "a", "y">>, <<"8", ",">>, <<"2", "3">>, <<"1", "0", "0">>, <<"2", "0", "2", "3">>}

WordQueries == {Join(toks, <<" ">>) : toks \in SeqsUpTo(Words, MaxWords)}

\* Queries with whitespace around them.
PaddedQueries == {<<" ">>, <<" ", " ">>, <<" ", "2", "0", "2", "3", "-", "1", "2", "-", "0", "8", " ">>, <<" ", " ", "2", "5", " ", "K", "i", "s", "l", "e", "v", " ", "5", "7", "8", "4", " ">>, <<"h", "e", "l", "l", "o", " ", "w", "o", "r", "l", "d">>}

Queries ==
    TokenQueries \cup HebrewQueries \cup NumericQueries \cup WordQueries
    \cup PaddedQueries

(***************************************************************************)
(* The query handler.                                                      *)
(***************************************************************************)

VARIABLES
    query,             \* query.string, as the host passes it
    pc,                \* the handler's position
    query_string,      \* the local query_string
    items,             \* the local list items
    gregorian_result,  \* parseGregorianDate's return value
    hebrew_date,       \* convertGregorianToHebrew's return value
    hebrew_result,     \* parseHebrewDate's return value
    gregorian_date,    \* convertHebrewToGregorian's return value
    response,          \* the service's reply to the last outbound call
    calls,             \* the functions the handler has called, in order
    shown              \* the items passed to query.add, in order

vars ==
    <<query, pc, query_string, items, gregorian_result, hebrew_date,
      hebrew_result, gregorian_date, response, calls, shown>>

Init ==
    /\ query \in Queries
    /\ pc = "start"
    /\ query_string = <<>>
    /\ items = <<>>
    /\ gregorian_result = NoGregorian
    /\ hebrew_date = NoConverted
    /\ hebrew_result = NoDate
    /\ gregorian_date = NoConverted
    /\ response = NoResponse
    /\ calls = <<>>
    /\ shown = <<>>

\* Lines 57-71: strip the query; an empty query gets the help item.
HandleTriggerQuery ==
    /\ pc = "start"
    /\ query_string' = strip(query)
    /\ IF query_string' = <<>>
       THEN /\ shown' = <<HelpItem>>
            /\ pc' = "done"
       ELSE /\ shown' = shown
            /\ pc' = "parseGregorian"
    /\ items' = <<>>
    /\ UNCHANGED <<query, gregorian_result, hebrew_date, hebrew_result,
                   gregorian_date, response, calls>>

\* Lines 74-76.
ParseGregorian ==
    /\ pc = "parseGregorian"
    /\ gregorian_result' = parseGregorianDate(query_string)
    /\ calls' = Append(calls, "parseGregorianDate")
    /\ pc' = IF gregorian_result'.status = "ok" THEN "g2h" ELSE "parseHebrew"
    /\ UNCHANGED <<query, query_string, items, hebrew_date, hebrew_result,
                   gregorian_date, response, shown>>

\* A variant that stops at the first direction that succeeded.
CallGregorianToHebrew_ShortCircuit ==
    /\ pc = "g2h"
    /\ \E resp \in Responses :
        /\ response' = resp
        /\ hebrew_date' = convertGregorianToHebrew(gregorian_result, resp)
    /\ calls' = Append(calls, "convertGregorianToHebrew")
    /\ IF hebrew_date'.status = "ok"
       THEN /\ pc' = "deliver"
            /\ items' = Append(items, createResultItem(gregorian_result, hebrew_date', FALSE))
       ELSE /\ pc' = "parseHebrew"
            /\ items' = items
    /\ UNCHANGED <<query, query_string, gregorian_result, hebrew_result,
                   gregorian_date, shown>>

\* A variant that calls the service once more after a failed call.
CallGregorianToHebrew_Retry ==
    /\ pc = "g2h"
    /\ \E resp \in Responses :
        /\ response' = resp
        /\ hebrew_date' = convertGregorianToHebrew(gregorian_result, resp)
    /\ calls' = Append(calls, "convertGregorianToHebrew")
    /\ IF hebrew_date'.status = "ok"
       THEN /\ pc' = "parseHebrew"
            /\ items' = Append(items, createResultItem(gregorian_result, hebrew_date', FALSE))
       ELSE /\ pc' = IF Len(calls) < 2 THEN "g2h" ELSE "parseHebrew"
            /\ items' = items
    /\ UNCHANGED <<query, query_string, gregorian_result, hebrew_result,
                   gregorian_date, shown>>

\* Lines 77-80: one outbound call, answered by the service in any way.
CallGregorianToHebrew ==
    /\ pc = "g2h"
    /\ \E resp \in Responses :
        /\ response' = resp
        /\ hebrew_date' = convertGregorianToHebrew(gregorian_result, resp)
    /\ calls' = Append(calls, "convertGregorianToHebrew")
    /\ IF hebrew_date'.status = "raised"
       THEN /\ pc' = "raised"
            /\ items' = items
       ELSE /\ pc' = "parseHebrew"
            /\ items' = IF hebrew_date'.status = "ok"
                        THEN Append(items, createResultItem(gregorian_result, hebrew_date', FALSE))
                        ELSE items
    /\ UNCHANGED <<query, query_string, gregorian_result, hebrew_result,
                   gregorian_date, shown>>

\* Lines 83-85: an exception raised by parseHebrewDate leaves the handler.
ParseHebrew ==
    /\ pc = "parseHebrew"
    /\ LET r == parseHebrewDate(query_string)
       IN IF r.status = "ValueError"
          THEN /\ pc' = "raised"
               /\ hebrew_result' = hebrew_result
          ELSE /\ pc' = IF r.status = "ok" THEN "h2g" ELSE "deliver"
               /\ hebrew_result' = r
    /\ calls' = Append(calls, "parseHebrewDate")
    /\ UNCHANGED <<query, query_string, items, gregorian_result, hebrew_date,
                   gregorian_date, response, shown>>

\* Lines 86-89: one outbound call, answered by the service in any way.
CallHebrewToGregorian ==
    /\ pc = "h2g"
    /\ \E resp \in Responses :
        /\ response' = resp
        /\ gregorian_date' = convertHebrewToGregorian(hebrew_result, resp)
    /\ calls' = Append(calls, "convertHebrewToGregorian")
    /\ IF gregorian_date'.status = "raised"
       THEN /\ pc' = "raised"
            /\ items' = items
       ELSE /\ pc' = "deliver"
            /\ items' = IF gregorian_date'.status = "ok"
                        THEN Append(items, createResultItem(hebrew_result, gregorian_date', TRUE))
                        ELSE items
    /\ UNCHANGED <<query, query_string, gregorian_result, hebrew_date,
                   hebrew_result, shown>>

\* Lines 93-102: the placeholder when items is empty, else every item.
Deliver ==
    /\ pc = "deliver"
    /\ shown' = IF items = <<>> THEN <<InvalidItem>> ELSE items
    /\ pc' = "done"
    /\ UNCHANGED <<query, query_string, items, gregorian_result, hebrew_date,
                   hebrew_result, gregorian_date, response, calls>>

Next ==
    \/ HandleTriggerQuery
    \/ ParseGregorian
    \/ CallGregorianToHebrew
    \/ ParseHebrew
    \/ CallHebrewToGregorian
    \/ Deliver

Spec == Init /\ [][Next]_vars

(***************************************************************************)
(* Vocabulary of the properties.                                           *)
(***************************************************************************)

Called(f) == \E i \in 1..Len(calls) : calls[i] = f

TimesCalled(f) == Cardinality({i \in 1..Len(calls) : calls[i] = f})

LastCallIs(f) == calls # <<>> /\ calls[Len(calls)] = f

\* The handler has returned or an exception has left it.
Ended == pc \in {"done", "raised"}

IsPrefix(p, s) == Len(p) <= Len(s) /\ SubSeq(s, 1, Len(p)) = p

HasCopyActions(item) ==
    /\ Len(item.actions) = 2
    /\ item.actions[1].id = "copy"
    /\ item.actions[2].id = "copy-input"

IsGregorianToHebrewItem(item) ==
    IsPrefix(GregorianToHebrewLabel, item.subtext) /\ HasCopyActions(item)

IsHebrewToGregorianItem(item) ==
    IsPrefix(HebrewToGregorianLabel, item.subtext) /\ HasCopyActions(item)

ShownGregorianToHebrew ==
    Cardinality({i \in 1..Len(shown) : IsGregorianToHebrewItem(shown[i])})

ShownHebrewToGregorian ==
    Cardinality({i \in 1..Len(shown) : IsHebrewToGregorianItem(shown[i])})

\* A direction succeeded: its parser matched and its conversion returned a date.
GregorianSucceeded == gregorian_result.status = "ok" /\ hebrew_date.status = "ok"

HebrewSucceeded == hebrew_result.status = "ok" /\ gregorian_date.status = "ok"

B2N(b) == IF b THEN 1 ELSE 0

(***************************************************************************)
(* C1.  Every handled query receives exactly one "invalid format"          *)
(* placeholder without actions when no direction succeeded, and otherwise  *)
(* exactly one result item, with the two copy actions, per direction that  *)
(* succeeded, and no placeholder.                                          *)
(***************************************************************************)
C1_PlaceholderOrResults ==
    Ended =>
        IF ~GregorianSucceeded /\ ~HebrewSucceeded
        THEN shown = <<InvalidItem>>
        ELSE /\ Len(shown) = B2N(GregorianSucceeded) + B2N(HebrewSucceeded)
             /\ ShownGregorianToHebrew = B2N(GregorianSucceeded)
             /\ ShownHebrewToGregorian = B2N(HebrewSucceeded)

(***************************************************************************)
(* C2.  No exception leaves the handler: whatever the query string and     *)
(* whatever the service replies, handling never ends in an exception, and  *)
(* a handler that has returned has delivered at least one item.            *)
(***************************************************************************)
C2_NoExceptionEscapes ==
    /\ pc # "raised"
    /\ pc = "done" => shown # <<>>

(***************************************************************************)
(* C3.  As stated: when the handling of a query has ended, both parsers    *)
(* have been run, and both result items are shown when both directions     *)
(* succeeded.                                                              *)
(***************************************************************************)
C3_BothParsersAlwaysRun ==
    Ended =>
        /\ Called("parseGregorianDate")
        /\ Called("parseHebrewDate")
        /\ (GregorianSucceeded /\ HebrewSucceeded =>
                ShownGregorianToHebrew = 1 /\ ShownHebrewToGregorian = 1)

(***************************************************************************)
(* C3, amended.  When the handling of a query whose string is not empty    *)
(* after stripping has ended, both parsers have been run, the Gregorian    *)
(* one first, whatever the Gregorian parser and conversion returned, and   *)
(* both result items are shown when both directions succeeded.  An empty   *)
(* query runs neither parser.                                              *)
(***************************************************************************)
C3_BothParsersRunOnNonEmpty ==
    Ended =>
        IF query_string = <<>>
        THEN calls = <<>>
        ELSE /\ TimesCalled("parseGregorianDate") = 1
             /\ TimesCalled("parseHebrewDate") = 1
             /\ calls[1] = "parseGregorianDate"
             /\ (pc = "done" /\ GregorianSucceeded /\ HebrewSucceeded =>
                    /\ Len(shown) = 2
                    /\ IsGregorianToHebrewItem(shown[1])
                    /\ IsHebrewToGregorianItem(shown[2]))

\* Both directions succeeded on one query and both items were shown.
C3_Witness ==
    /\ pc = "done"
    /\ GregorianSucceeded
    /\ HebrewSucceeded
    /\ Len(shown) = 2

(***************************************************************************)
(* C4.  A conversion function returns a ConvertedDate only when the call   *)
(* completed and the JSON body holds all three expected fields; on a       *)
(* network failure, a timeout, a malformed body or a missing field it      *)
(* returns None; it never raises.                                          *)
(***************************************************************************)
C4_ConvertedOnlyFromCompleteReply ==
    /\ LastCallIs("convertGregorianToHebrew") =>
        /\ hebrew_date.status \in {"ok", "None"}
        /\ hebrew_date.status = "ok" =>
              response.kind = "json" /\ {"hy", "hm", "hd"} \subseteq response.keys
        /\ response.kind # "json" \/ ~({"hy", "hm", "hd"} \subseteq response.keys) =>
              hebrew_date.status = "None"
    /\ LastCallIs("convertHebrewToGregorian") =>
        /\ gregorian_date.status \in {"ok", "None"}
        /\ gregorian_date.status = "ok" =>
              response.kind = "json" /\ {"gy", "gm", "gd"} \subseteq response.keys
        /\ response.kind # "json" \/ ~({"gy", "gm", "gd"} \subseteq response.keys) =>
              gregorian_date.status = "None"

\* A Hebrew-to-Gregorian call timed out and the function returned None.
C4_Witness ==
    /\ LastCallIs("convertHebrewToGregorian")
    /\ response.kind = "timeout"
    /\ gregorian_date.status = "None"
    /\ pc = "deliver"

(***************************************************************************)
(* C5.  As stated: every record parseGregorianDate returns has its month   *)
(* in 1..12 and its day in 1..31.                                          *)
(***************************************************************************)
C5_MonthAndDayInRange ==
    gregorian_result.status = "ok" =>
        /\ gregorian_result.month \in 1..12
        /\ gregorian_result.day \in 1..31

(***************************************************************************)
(* C5, amended.  parseGregorianDate does no range check: in the ISO and    *)
(* slash forms the month and the day of the record are the values of the   *)
(* one- or two-digit fields as written (0..99 each), and in the            *)
(* natural-language form the month is in 1..12 and the day is the value    *)
(* of the first numeric run, whatever it is.                               *)
(***************************************************************************)
C5_MonthAndDayAsWritten ==
    gregorian_result.status = "ok" =>
        IF IsoMatch(query_string) # <<>> \/ SlashMatch(query_string) # <<>>
        THEN /\ gregorian_result.month \in 0..99
             /\ gregorian_result.day \in 0..99
        ELSE /\ gregorian_result.month \in 1..12
             /\ gregorian_result.day = int(findall(query_string)[1])

\* An ISO date was parsed into a record whose month is 99.
C5_Witness ==
    /\ gregorian_result.status = "ok"
    /\ IsoMatch(query_string) # <<>>
    /\ gregorian_result.month = 99

(***************************************************************************)
(* C6.  The Hebrew parser is order-insensitive: for a query made of one    *)
(* year token, one month name and one day token, in any of the six orders  *)
(* and with or without a comma or period attached to each token, it        *)
(* returns the record of that year, month and day.                         *)
(***************************************************************************)
HebrewCases ==
    {[q |-> HebrewQuery(y, m, d, p, a), y |-> y, m |-> m, d |-> d] :
        y \in YearTokens, m \in MonthTokens, d \in DayTokens,
        p \in Orders, a \in [1..3 -> Attached]}

C6_HebrewOrderInsensitive ==
    LastCallIs("parseHebrewDate") /\ query_string \in HebrewQueries =>
        \A c \in HebrewCases :
            c.q = query_string
            => /\ pc = "h2g"
               /\ hebrew_result =
                    [status |-> "ok", year |-> int(c.y),
                     month |-> HebrewMonthName(lower(c.m)), day |-> int(c.d)]

\* The parser returned a record for a query whose year comes last and whose
\* day, first, has a comma attached.
C6_Witness ==
    /\ LastCallIs("parseHebrewDate")
    /\ query_string = <<"3", "0", ",", " ", "A", "D", "A", "R", "2", " ", "5", "0", "0", "1">>
    /\ hebrew_result.status = "ok"

IsYearToken(part) == IntParsable(part) /\ int(part) > 5000

IsDayToken(part) == IntParsable(part) /\ int(part) >= 1 /\ int(part) <= 30

LastWhere(parts, Test(_)) ==
    parts[CHOOSE i \in 1..Len(parts) :
            Test(parts[i]) /\ \A j \in (i + 1)..Len(parts) : ~Test(parts[j])]

C8_HebrewRecordIffSlotsFilled ==
    LastCallIs("parseHebrewDate") =>
        LET parts == split(lower(RemovePunct(query_string)))
            filled ==
                /\ Len(parts) >= 3
                /\ \E i \in 1..Len(parts) : IsYearToken(parts[i])
                /\ \E i \in 1..Len(parts) : IsDayToken(parts[i])
                /\ \E i \in 1..Len(parts) : InHebrewMonths(parts[i])
            returned == pc = "h2g" /\ hebrew_result.status = "ok"
        IN /\ returned <=> filled
           /\ returned =>
                /\ hebrew_result.year = int(LastWhere(parts, IsYearToken))
                /\ hebrew_result.day = int(LastWhere(parts, IsDayToken))
                /\ hebrew_result.month = HebrewMonthName(LastWhere(parts, InHebrewMonths))

(***************************************************************************)
(* C9.  As stated: for a query that matches neither the ISO nor the slash  *)
(* form and contains an English month name, parseGregorianDate returns     *)
(* the first numeric run as the day, the last numeric run as the year      *)
(* (plus 2000 exactly when below 100) and the month of the first month     *)
(* name matched.                                                           *)
(***************************************************************************)
ContainsMonthName(s) == \E i \in 1..Len(months) : Contains(lower(s), months[i][1])

\* The month number of the first name, in the dict's order, that occurs in
\* a lowercased string holding at least one.
RECURSIVE FirstNameIn(_, _)
FirstNameIn(low, i) ==
    IF Contains(low, months[i][1]) THEN months[i][2] ELSE FirstNameIn(low, i + 1)

FirstMonthMatched(s) == FirstNameIn(lower(s), 1)

NaturalLanguageCase ==
    /\ LastCallIs("parseGregorianDate")
    /\ IsoMatch(query_string) = <<>>
    /\ SlashMatch(query_string) = <<>>
    /\ ContainsMonthName(query_string)

ExpectedNatural(s) ==
    LET numbers == findall(s)
        last == int(numbers[Len(numbers)])
    IN GregorianDate(IF last < 100 THEN last + 2000 ELSE last,
                     FirstMonthMatched(s), int(numbers[1]))

C9_NaturalLanguageRecord ==
    NaturalLanguageCase =>
        /\ findall(query_string) # <<>>
        /\ gregorian_result = ExpectedNatural(query_string)

(***************************************************************************)
(* C9, amended.  The same, for a query that also holds at least two        *)
(* numeric runs; with fewer than two numeric runs parseGregorianDate       *)
(* returns None.                                                           *)
(***************************************************************************)
C9_NaturalLanguageNeedsTwoRuns ==
    NaturalLanguageCase =>
        IF Len(findall(query_string)) >= 2
        THEN gregorian_result = ExpectedNatural(query_string)
        ELSE gregorian_result = NoGregorian

\* "8, Dec 23": day 8, month 12, year 23 + 2000.
C9_Witness ==
    /\ LastCallIs("parseGregorianDate")
    /\ query_string = <<"8", ",", " ", "D", "e", "c", " ", "2", "3">>
    /\ gregorian_result = GregorianDate(2023, 12, 8)

(***************************************************************************)
(* C10.  Handling one query makes at most one Gregorian-to-Hebrew call,    *)
(* only if the Gregorian parser matched, and then at most one              *)
(* Hebrew-to-Gregorian call, only if the Hebrew parser matched; a failed   *)
(* call is not retried and removes only the result of its own direction.   *)
(***************************************************************************)
C10_AtMostTwoSequentialCalls ==
    /\ TimesCalled("convertGregorianToHebrew") <= 1
    /\ TimesCalled("convertHebrewToGregorian") <= 1
    /\ Called("convertGregorianToHebrew") => gregorian_result.status = "ok"
    /\ Called("convertHebrewToGregorian") => hebrew_result.status = "ok"
    /\ \A i, j \in 1..Len(calls) :
        calls[i] = "convertHebrewToGregorian" /\ calls[j] = "convertGregorianToHebrew"
            => j < i
    /\ pc = "done" /\ query_string # <<>> =>
        /\ Called("convertGregorianToHebrew") <=> gregorian_result.status = "ok"
        /\ Called("convertHebrewToGregorian") <=> hebrew_result.status = "ok"
        /\ ShownGregorianToHebrew = B2N(hebrew_date.status = "ok")
        /\ ShownHebrewToGregorian = B2N(gregorian_date.status = "ok")

\* The first call failed, the second was still made and its result is shown.
C10_Witness ==
    /\ pc = "done"
    /\ calls = <<"parseGregorianDate", "convertGregorianToHebrew",
                 "parseHebrewDate", "convertHebrewToGregorian">>
    /\ hebrew_date.status = "None"
    /\ gregorian_date.status = "ok"
    /\ Len(shown) = 1
    /\ IsHebrewToGregorianItem(shown[1])

=============================================================================
